---------------------------- MODULE Spec2Model ----------------------------
(***************************************************************************)
(* A model of arxiv-search.py: search_arxiv (query construction and the    *)
(* pagination loop), strip_version and query_semantic_scholar.             *)
(*                                                                         *)
(* Python values.  A value that may be None is modelled as a tuple: <<>>   *)
(* is None and <<v>> is the value v.  A dict is a function whose DOMAIN is *)
(* the set of keys it holds, so that a missing key and a key holding None  *)
(* are different things, as they are for dict.get.  A str is a TLA+ string *)
(* where only concatenation is needed (the query) and a sequence of        *)
(* one-character strings where it is cut (the arXiv identifier).           *)
(***************************************************************************)
EXTENDS Integers, Sequences, FiniteSets, TLC

VARIABLES
    pc,           \* position of the running call
    parameters,   \* search_arxiv: the parameters dict
    batch_size,   \* search_arxiv: the batch_size argument
    query,        \* search_arxiv: the query string
    all_results,  \* search_arxiv: the accumulated articles
    start,        \* search_arxiv: the offset of the next request
    requests,     \* the GET requests sent to the arXiv API, in order
    responses,    \* the responses received from the arXiv API, in order
    result,       \* search_arxiv: the returned list (None before the return)
    source,       \* the ordered entries held by a faithful arXiv source
    arxiv_id,     \* strip_version: the argument
    stripped,     \* strip_version: the returned value (None before)
    s2_response,  \* query_semantic_scholar: the response of the API
    paper_data    \* query_semantic_scholar: the returned dict (None before)

vars == <<pc, parameters, batch_size, query, all_results, start, requests,
          responses, result, source, arxiv_id, stripped, s2_response,
          paper_data>>

stripVars == <<arxiv_id, stripped>>
enrichVars == <<s2_response, paper_data>>

-----------------------------------------------------------------------------
(* Bounds of the model. *)

MaxResults == 2
MaxBatchSize == 2
MaxBatchLen == 2
MaxSourceLen == 3
MaxCategories == 2
MaxIdLen == 4
MaxPapers == 1

(* Program constants. *)

DefaultMaxResults == 50
HttpOk == 200

-----------------------------------------------------------------------------
(* Python values. *)

NoneVal == <<>>
Some(v) == <<v>>

Min(a, b) == IF a < b THEN a ELSE b

SeqsUpTo(S, n) == UNION {[1..k -> S] : k \in 0..n}

Restrict(f, K) == [k \in K |-> f[k]]

\* dict.get(key, default)
Get(d, key, default) == IF key \in DOMAIN d THEN d[key] ELSE default

\* bool(v) of a value that is None or an int
Truthy(v) == v # NoneVal /\ v[1] # 0

\* sep.join(strs)
RECURSIVE Join(_, _)
Join(sep, strs) ==
    IF strs = <<>> THEN ""
    ELSE IF Len(strs) = 1 THEN strs[1]
    ELSE strs[1] \o sep \o Join(sep, Tail(strs))

\* s[:n] for n >= 0
Take(s, n) == SubSeq(s, 1, Min(n, Len(s)))

RECURSIVE Flatten(_)
Flatten(ss) == IF ss = <<>> THEN <<>> ELSE Head(ss) \o Flatten(Tail(ss))

-----------------------------------------------------------------------------
(* search_arxiv: the query. *)

CategoryFilter(categories) ==
    LET joined == IF categories # <<>>
                  THEN Join(" OR ", [i \in 1..Len(categories) |->
                                        "cat:" \o categories[i]])
                  ELSE ""
    IN  IF joined # "" THEN "(" \o joined \o ") AND " ELSE ""

DateFilter(year_start, year_end) ==
    IF Truthy(year_start)
    THEN "submittedDate:[" \o ToString(year_start[1]) \o "0000 TO "
         \o (IF Truthy(year_end) THEN ToString(year_end[1]) \o "1231]"
             ELSE "*]")
    ELSE ""

Query(p) ==
    LET subject     == Get(p, "subject", "")
        categories  == Get(p, "categories", <<>>)
        year_start  == Get(p, "year_start", NoneVal)
        year_end    == Get(p, "year_end", NoneVal)
    IN  CategoryFilter(categories) \o DateFilter(year_start, year_end)
        \o " AND all:" \o subject

max_results == Get(parameters, "max_results", DefaultMaxResults)

-----------------------------------------------------------------------------
(* search_arxiv: the pagination loop. *)

LoopCond(results, maxr) == Len(results) < maxr

RequestedCount(bsize, maxr, results) == Min(bsize, maxr - Len(results))

StatusOkAlways(status) == TRUE

StatusOk(status) == status = HttpOk

BatchEmptyNever(batch) == FALSE

BatchEmpty(batch) == batch = <<>>

NextStartByReceived(s, bsize, batch) == s + Len(batch)

NextStartStuck(s, bsize, batch) == s

NextStart(s, bsize, batch) == s + bsize

ReturnAll(results, maxr) == results

ReturnValue(results, maxr) == Take(results, maxr)

\* A cap on the request log that keeps the state space finite.  The loop as
\* written stays below it: every request that does not end the call adds at
\* least one article, so a call sends at most max_results requests.
MaxRequests == MaxResults + 2

BuildQuery ==
    /\ pc = "build"
    /\ query' = Query(parameters)
    /\ all_results' = <<>>
    /\ start' = 0
    /\ pc' = "loop"
    /\ UNCHANGED <<parameters, batch_size, requests, responses, result, source,
                   stripVars, enrichVars>>

SendRequest ==
    /\ pc = "loop"
    /\ LoopCond(all_results, max_results)
    /\ Len(requests) < MaxRequests
    /\ requests' = Append(requests,
                          [search_query |-> query,
                           start        |-> start,
                           max_results  |-> RequestedCount(batch_size,
                                               max_results, all_results)])
    /\ pc' = "wait"
    /\ UNCHANGED <<parameters, batch_size, query, all_results, start,
                   responses, result, source, stripVars, enrichVars>>

Return ==
    /\ pc = "loop"
    /\ ~LoopCond(all_results, max_results)
    /\ result' = Some(ReturnValue(all_results, max_results))
    /\ pc' = "done"
    /\ UNCHANGED <<parameters, batch_size, query, all_results, start,
                   requests, responses, source, stripVars, enrichVars>>

\* The body of the loop from the response on.  The entries of a response are
\* the articles its XML parses to, in document order.
Receive(resp) ==
    /\ pc = "wait"
    /\ responses' = Append(responses, resp)
    /\ IF ~StatusOk(resp.status) \/ BatchEmpty(resp.entries)
       THEN /\ result' = Some(ReturnValue(all_results, max_results))
            /\ pc' = "done"
            /\ UNCHANGED <<all_results, start>>
       ELSE /\ all_results' = all_results \o resp.entries
            /\ start' = NextStart(start, batch_size, resp.entries)
            /\ pc' = "loop"
            /\ UNCHANGED result
    /\ UNCHANGED <<parameters, batch_size, query, requests, source,
                   stripVars, enrichVars>>

-----------------------------------------------------------------------------
(* The arXiv API as search_arxiv sees it. *)

EntryIds == {1, 2}

Batches == SeqsUpTo(EntryIds, MaxBatchLen)

Statuses == {HttpOk, 503}

\* Any status, any entries, whatever was asked for.
ArxivResponses == [status : Statuses, entries : Batches]

Respond == \E resp \in ArxivResponses : Receive(resp)

\* A source that holds the ordered entries src and answers a request with
\* the entries at the 0-based positions s .. s + n - 1 that exist.
FaithfulBatch(src, s, n) ==
    IF s >= 0 /\ n >= 1 /\ s < Len(src)
    THEN SubSeq(src, s + 1, Min(s + n, Len(src)))
    ELSE <<>>

FaithfulRespond ==
    LET req == requests[Len(requests)]
    IN  Receive([status  |-> HttpOk,
                 entries |-> FaithfulBatch(source, req.start,
                                           req.max_results)])

-----------------------------------------------------------------------------
(* search_arxiv: specifications. *)

\* The parameters of the script's entry point, max_results apart.
MainParameters(maxr) ==
    [subject     |-> "Bayesian optimization",
     max_results |-> maxr,
     categories  |-> <<"stat.ML", "stat.TH">>,
     year_start  |-> Some(2020),
     year_end    |-> Some(2021)]

IdleStrip == arxiv_id = <<>> /\ stripped = NoneVal

IdleEnrich == s2_response = NoneVal /\ paper_data = NoneVal

InitCall ==
    /\ pc = "build"
    /\ query = ""
    /\ all_results = <<>>
    /\ start = 0
    /\ requests = <<>>
    /\ responses = <<>>
    /\ result = NoneVal
    /\ IdleStrip
    /\ IdleEnrich

Init ==
    /\ InitCall
    /\ parameters \in {MainParameters(m) : m \in 0..MaxResults}
    /\ batch_size \in -1..MaxBatchSize
    /\ source = <<>>

Next == BuildQuery \/ SendRequest \/ Respond \/ Return

Spec == Init /\ [][Next]_vars

\* Every request is answered and the interpreter keeps running the call.
FairSpec == Spec /\ WF_vars(Next)

InitFaithful ==
    /\ InitCall
    /\ parameters \in {MainParameters(m) : m \in 0..(MaxResults + 2)}
    /\ batch_size \in 1..(MaxBatchSize + 1)
    /\ source \in {[i \in 1..n |-> i] : n \in 0..MaxSourceLen}

NextFaithful == BuildQuery \/ SendRequest \/ FaithfulRespond \/ Return

SpecFaithful == InitFaithful /\ [][NextFaithful]_vars

\* The query over every filter; the loop is not run.
Subjects == {"", "gp"}

CategoryLists == SeqsUpTo({"stat.ML", "stat.TH"}, MaxCategories)

Years == {NoneVal, Some(0), Some(2020), Some(2021)}

Filters ==
    {Restrict(f, K) :
        f \in [subject : Subjects, categories : CategoryLists,
               year_start : Years, year_end : Years],
        K \in SUBSET {"subject", "categories", "year_start", "year_end"}}

InitBuild ==
    /\ InitCall
    /\ parameters \in Filters
    /\ batch_size = 2000
    /\ source = <<>>

NextBuild == BuildQuery

SpecBuild == InitBuild /\ [][NextBuild]_vars

-----------------------------------------------------------------------------
(* strip_version.  The identifier is a sequence of characters. *)

\* str.split(sep) for a one-character sep, read left to right: cur is the
\* piece being read.
RECURSIVE SplitFrom(_, _, _)
SplitFrom(s, sep, cur) ==
    IF s = <<>> THEN <<cur>>
    ELSE IF Head(s) = sep
         THEN <<cur>> \o SplitFrom(Tail(s), sep, <<>>)
         ELSE SplitFrom(Tail(s), sep, Append(cur, Head(s)))

Split(s, sep) == SplitFrom(s, sep, <<>>)

\* arxiv_id.rsplit("v", 1)[0]
strip_version_rsplit(id) ==
    LET pieces == Split(id, "v")
        last   == pieces[Len(pieces)]
    IN  SubSeq(id, 1, IF Len(pieces) = 1 THEN Len(id)
                      ELSE Len(id) - Len(last) - 1)

strip_version(id) == Split(id, "v")[1]

IdChars == {"2", ".", "v", "1"}

StripVersion ==
    /\ pc = "strip"
    /\ stripped' = Some(strip_version(arxiv_id))
    /\ pc' = "stripped"
    /\ UNCHANGED <<parameters, batch_size, query, all_results, start,
                   requests, responses, result, source, arxiv_id, enrichVars>>

\* The caller strips the identifier it got back once more.
StripAgain ==
    /\ pc = "stripped"
    /\ arxiv_id' = stripped[1]
    /\ stripped' = Some(strip_version(stripped[1]))
    /\ pc' = "restripped"
    /\ UNCHANGED <<parameters, batch_size, query, all_results, start,
                   requests, responses, result, source, enrichVars>>

IdleSearch ==
    /\ parameters = <<>>
    /\ batch_size = 2000
    /\ query = ""
    /\ all_results = <<>>
    /\ start = 0
    /\ requests = <<>>
    /\ responses = <<>>
    /\ result = NoneVal
    /\ source = <<>>

InitStrip ==
    /\ pc = "strip"
    /\ arxiv_id \in SeqsUpTo(IdChars, MaxIdLen)
    /\ stripped = NoneVal
    /\ IdleSearch
    /\ IdleEnrich

NextStrip == StripVersion \/ StripAgain

SpecStrip == InitStrip /\ [][NextStrip]_vars

-----------------------------------------------------------------------------
(* query_semantic_scholar.  data is the JSON object of the response: a dict *)
(* whose values are None (JSON null) or <<v>>.                              *)

\* len(None) and iteration over None raise TypeError.
PaperRaises(paper) == Get(paper, "authors", Some(<<>>)) = NoneVal

Raises(data) ==
    LET citations  == Get(data, "citations", Some(<<>>))
        references == Get(data, "references", Some(<<>>))
    IN  \/ citations = NoneVal
        \/ references = NoneVal
        \/ \E i \in 1..Len(references[1]) : PaperRaises(references[1][i])
        \/ \E i \in 1..Len(citations[1]) : PaperRaises(citations[1][i])

PaperSummary(paper) ==
    LET authors == Get(paper, "authors", Some(<<>>))[1]
    IN  [title   |-> Get(paper, "title", Some("Unknown Title")),
         authors |-> [i \in 1..Len(authors) |->
                         Get(authors[i], "name", Some("Unknown"))]]

PaperData(data) ==
    LET citations  == Get(data, "citations", Some(<<>>))[1]
        references == Get(data, "references", Some(<<>>))[1]
    IN  [citation_count |-> Some(Len(citations)),
         influential_citation_count |->
             Get(data, "influentialCitationCount", Some(0)),
         references |->
             Some([i \in 1..Len(references) |-> PaperSummary(references[i])]),
         citing_papers |->
             Some([i \in 1..Len(citations) |-> PaperSummary(citations[i])])]

FailedPaperData ==
    [citation_count             |-> NoneVal,
     influential_citation_count |-> NoneVal,
     references                 |-> NoneVal,
     citing_papers              |-> NoneVal]

QuerySemanticScholar ==
    /\ pc = "enrich"
    /\ IF s2_response.status = HttpOk
       THEN IF Raises(s2_response.data)
            THEN pc' = "raised" /\ UNCHANGED paper_data
            ELSE /\ paper_data' = Some(PaperData(s2_response.data))
                 /\ pc' = "returned"
       ELSE /\ paper_data' = Some(FailedPaperData)
            /\ pc' = "returned"
    /\ UNCHANGED <<parameters, batch_size, query, all_results, start,
                   requests, responses, result, source, stripVars,
                   s2_response>>

\* The JSON objects the Semantic Scholar API may answer with.
AuthorObjects == {Restrict(a, K) : a \in [name : {NoneVal, Some("A")}],
                                   K \in SUBSET {"name"}}

AuthorLists == {<<>>} \cup {<<a>> : a \in AuthorObjects}

PaperObjects ==
    {Restrict(q, K) :
        q \in [title   : {NoneVal, Some("T")},
               authors : {NoneVal} \cup {Some(l) : l \in AuthorLists}],
        K \in SUBSET {"title", "authors"}}

PaperLists == {NoneVal} \cup {Some(l) : l \in SeqsUpTo(PaperObjects, MaxPapers)}

JsonObjects ==
    {Restrict(d, K) :
        d \in [citations : PaperLists, references : PaperLists,
               influentialCitationCount : {NoneVal, Some(0), Some(3)}],
        K \in SUBSET {"citations", "references", "influentialCitationCount"}}

InitEnrich ==
    /\ pc = "enrich"
    /\ s2_response \in [status : {HttpOk, 404}, data : JsonObjects]
    /\ paper_data = NoneVal
    /\ IdleSearch
    /\ IdleStrip

NextEnrich == QuerySemanticScholar

SpecEnrich == InitEnrich /\ [][NextEnrich]_vars

-----------------------------------------------------------------------------
(* Properties of search_arxiv's pagination loop. *)

\* The entries of the successful responses among the first n, concatenated
\* in the order received.
ReceivedUpTo(n) ==
    Flatten([i \in 1..n |-> IF responses[i].status = HttpOk
                            THEN responses[i].entries ELSE <<>>])

Received == ReceivedUpTo(Len(responses))

\* C1: whatever the server answers, batches longer than requested included,
\* the returned list has at most max_results entries and is exactly the first
\* min(max_results, n) entries, in order, of the concatenation of the batches
\* received during the call, n being the length of that concatenation.
C1_Truncated ==
    pc = "done" =>
        /\ Len(result[1]) <= max_results
        /\ result[1] = SubSeq(Received, 1, Min(max_results, Len(Received)))

\* A call that returned after two batches, the last one longer than what was
\* requested and carrying the total over max_results.
C1_Witness ==
    /\ pc = "done"
    /\ Len(responses) >= 2
    /\ Len(Received) > max_results
    /\ Len(responses[Len(responses)].entries)
           > requests[Len(requests)].max_results
    /\ Len(result[1]) = max_results

\* C2: the pagination loop terminates: for every max_results, batch_size and
\* sequence of responses, each request being answered, the call reaches its
\* return, after at most max_results requests.
C2_Terminates == <>(pc = "done" /\ Len(requests) <= max_results)

\* A call that returned after as many requests as max_results allows.
C2_Witness ==
    /\ pc = "done"
    /\ Len(requests) = max_results
    /\ Len(requests) >= 2
    /\ Len(responses) = Len(requests)

\* C3: a response with a non-success status is the last of the call: no
\* request follows it, the call returns normally, and what it returns is the
\* entries of the earlier batches cut to max_results, the failing response
\* contributing none.
C3_FailureStops ==
    \A i \in 1..Len(responses) :
        responses[i].status # HttpOk =>
            /\ i = Len(responses)
            /\ Len(requests) = i
            /\ pc = "done"
            /\ result = Some(Take(ReceivedUpTo(i - 1), max_results))

\* A call whose second response failed while carrying entries, and which
\* returned the first batch.
C3_Witness ==
    /\ pc = "done"
    /\ Len(responses) = 2
    /\ responses[2].status # HttpOk
    /\ responses[2].entries # <<>>
    /\ result = Some(responses[1].entries)
    /\ result # Some(<<>>)

\* C4: a successful response with no entry is the last of the call, whatever
\* number of entries was requested: no request follows it and the call returns
\* without error the entries collected so far, fewer than max_results.
C4_EmptyStops ==
    \A i \in 1..Len(responses) :
        (responses[i].status = HttpOk /\ responses[i].entries = <<>>) =>
            /\ i = Len(responses)
            /\ Len(requests) = i
            /\ pc = "done"
            /\ result = Some(ReceivedUpTo(i - 1))
            /\ Len(result[1]) < max_results

\* A call whose second request, asking for at least one entry, was answered
\* by a successful empty batch.
C4_Witness ==
    /\ pc = "done"
    /\ Len(responses) = 2
    /\ responses[2].status = HttpOk
    /\ responses[2].entries = <<>>
    /\ requests[2].max_results >= 1
    /\ result # Some(<<>>)

\* C5: the k-th request of a call carries start = (k - 1) * batch_size,
\* however many entries the earlier batches held and whatever max_results
\* the earlier requests asked for.
C5_Offsets ==
    \A k \in 1..Len(requests) : requests[k].start = (k - 1) * batch_size

\* A second request sent after a first batch whose length is not batch_size,
\* asking for another count than the first.
C5_Witness ==
    /\ Len(requests) = 2
    /\ Len(responses) >= 1
    /\ Len(responses[1].entries) # batch_size
    /\ requests[2].max_results # requests[1].max_results
    /\ batch_size > 0

\* C10: against a faithful source holding N entries, with max_results >= 0
\* and batch_size >= 1, the call returns exactly the first
\* min(max_results, N) entries of the source, in order, none skipped and
\* none repeated.
C10_Faithful ==
    pc = "done" =>
        result = Some(SubSeq(source, 1, Min(max_results, Len(source))))

\* A call that needed three requests: two batches, the second short, and the
\* empty batch that ends a source smaller than max_results.
C10_Witness ==
    /\ pc = "done"
    /\ Len(requests) = 3
    /\ batch_size >= 2
    /\ Len(source) < max_results
    /\ result = Some(source)

-----------------------------------------------------------------------------
(* Properties of search_arxiv's query. *)

ClaimCategoryClause(categories) ==
    IF categories # <<>>
    THEN "(" \o Join(" OR ", [i \in 1..Len(categories) |->
                                 "cat:" \o categories[i]]) \o ") AND "
    ELSE ""

ClaimDateClause(year_start, year_end) ==
    IF year_start = NoneVal THEN ""
    ELSE IF year_end = NoneVal
         THEN "submittedDate:[" \o ToString(year_start[1]) \o "0000 TO *]"
         ELSE "submittedDate:[" \o ToString(year_start[1]) \o "0000 TO "
              \o ToString(year_end[1]) \o "1231]"

\* C7: for every filter the query is categoryClause + dateClause +
\* " AND all:" + subject, the date clause being the closed range when
\* year_start and year_end are present, the range open above when only
\* year_start is present, and empty when year_start is absent.
C7_QueryShape ==
    pc = "loop" =>
        query = ClaimCategoryClause(Get(parameters, "categories", <<>>))
                \o ClaimDateClause(Get(parameters, "year_start", NoneVal),
                                   Get(parameters, "year_end", NoneVal))
                \o " AND all:" \o Get(parameters, "subject", "")

\* C8: with categories and no year_start, the query is the parenthesized
\* category clause, a single AND, then all:<subject>.
C8_SingleAnd ==
    (/\ pc = "loop"
     /\ Get(parameters, "categories", <<>>) # <<>>
     /\ Get(parameters, "year_start", NoneVal) = NoneVal) =>
        query = "(" \o Join(" OR ",
                            [i \in 1..Len(parameters.categories) |->
                                "cat:" \o parameters.categories[i]])
                \o ") AND all:" \o Get(parameters, "subject", "")

-----------------------------------------------------------------------------
(* Properties of strip_version. *)

HasV(s) == \E i \in 1..Len(s) : s[i] = "v"

FirstV(s) == CHOOSE i \in 1..Len(s) :
                 s[i] = "v" /\ \A j \in 1..(i - 1) : s[j] # "v"

\* C9: strip_version returns the part of the identifier before the first
\* "v", and the identifier itself when it holds none; the result holds no
\* "v", and stripping it again leaves it unchanged.
C9_StripVersion ==
    /\ pc = "stripped" =>
         /\ stripped = Some(IF HasV(arxiv_id)
                            THEN SubSeq(arxiv_id, 1, FirstV(arxiv_id) - 1)
                            ELSE arxiv_id)
         /\ ~HasV(stripped[1])
    /\ pc = "restripped" => stripped = Some(arxiv_id)

\* An identifier with two "v" stripped to a non-empty result.
C9_Witness ==
    /\ pc = "stripped"
    /\ Len(Split(arxiv_id, "v")) >= 3
    /\ stripped # Some(<<>>)

-----------------------------------------------------------------------------
(* Properties of query_semantic_scholar. *)

\* C6: whatever the status and the JSON body, the four fields of the
\* returned dict are all populated or all None, and all None when the status
\* is not 200.
C6_AllOrNothing ==
    pc = "returned" =>
        LET r == paper_data[1]
            absent == {f \in {"citation_count", "influential_citation_count",
                              "references", "citing_papers"} :
                          r[f] = NoneVal}
        IN  /\ Cardinality(absent) \in {0, 4}
            /\ s2_response.status # HttpOk => Cardinality(absent) = 4

=============================================================================
